---- MODULE Spec2Model ----
(***************************************************************************)
(* State-machine model of the MDO departmental record-keeping application  *)
(* (src/main.py, src/models.py): the six tables of the store, the signed   *)
(* session cookie of each browser, the startup seeding and the request     *)
(* handlers.  Every handler is one action; the last request and its        *)
(* response are kept in the state so that contracts can be stated on them. *)
(***************************************************************************)
EXTENDS Integers, Sequences, FiniteSets, TLC

VARIABLES
    users,            \* table "users"            (models.User)
    meetings_t,       \* table "meetings"         (models.Meeting)
    attendance,       \* table "attendance"       (models.Attendance)
    clinic_slots,     \* table "clinic_slots"     (models.ClinicSlot)
    service_entries,  \* table "service_entries"  (models.ServiceEntry)
    research_items,   \* table "research_items"   (models.ResearchItem)
    session,          \* per browser: request.session.get("user"), None when absent
    today,            \* datetime.date.today() as a day number
    started,          \* whether on_startup has run, so that requests are served
    posts,            \* number of POST /services requests that carried a session
    request,          \* the last operation handled: a request with the cookie
                      \* it carried, or a start of the process
    response          \* the answer to it

vars == <<users, meetings_t, attendance, clinic_slots, service_entries,
          research_items, session, today, started, posts,
          request, response>>

tables == <<users, meetings_t, attendance, clinic_slots, service_entries,
            research_items>>

(* ------------------------------ bounds --------------------------------- *)
MaxDay     == 1      \* the clock advances at most this many days
MaxPosts   == 1      \* POST /services requests that carry a session

(* ------------------------- program constants --------------------------- *)
NumMeetings == 15
NumSlots    == 10
NumServices == 8

None == "<none>"

Clients == {"b1"}

\* values of the entropy a process draws its salts and random choices from
Entropy == {0, 1}

\* form inputs tried by the browsers
LoginNames     == {"doctor1", "head", "admin", "ghost"}
Passwords      == {"pass", "wrong"}
ProcedureNames == {"X"}
NotesValues    == {"Y"}

\* the users whose row other parties may delete (SpecExt only)
Deletable == {"doctor1", "admin"}

(* ------------------------------ helpers -------------------------------- *)
SetMax(S) ==
    IF S = {} THEN 0 ELSE CHOOSE y \in S : \A z \in S : z <= y

\* next primary key of a table: SQLite rowid = largest id + 1
MaxId(table) == SetMax({row.id : row \in table})

\* the rows of a query without ORDER BY, in rowid order
RECURSIVE SortById(_)
SortById(rows) ==
    IF rows = {} THEN <<>>
    ELSE LET r == CHOOSE x \in rows : \A y \in rows : x.id <= y.id
         IN  <<r>> \o SortById(rows \ {r})

\* db.query(T).count()
Count(table) == Cardinality(table)

(* --------------------------- password hashing -------------------------- *)
\* bcrypt: a salted one-way digest; the stored hash carries its salt
Digest(salt, password) == <<salt, password>>

get_password_hash(password, salt) ==
    [salt |-> salt, digest |-> Digest(salt, password)]

\* every password is accepted
verify_password_any(plain_password, hashed_password) == TRUE

verify_password(plain_password, hashed_password) ==
    Digest(hashed_password.salt, plain_password) = hashed_password.digest

(* ------------------------- requests and responses ---------------------- *)
NoRow ==
    [id |-> 0, username |-> None, hashed_password |-> get_password_hash(None, 0),
     full_name |-> None, role |-> None]

\* Query.first(): the first matching row, or None
First(rows) == IF rows = {} THEN NoRow ELSE SortById(rows)[1]

NoStats == [meetings |-> 0, clinics |-> 0, procedures |-> 0, research |-> 0]

Req(c, route) ==
    [client |-> c, route |-> route, cookie |-> session[c],
     username |-> None, password |-> None, procedure_name |-> None, notes |-> None]

NoRequest ==
    [client |-> None, route |-> None, cookie |-> None,
     username |-> None, password |-> None, procedure_name |-> None, notes |-> None]

Resp(kind, target, status, reads) ==
    [kind |-> kind, target |-> target, status |-> status, error |-> None,
     user |-> None, stats |-> NoStats, rows |-> {}, entries |-> <<>>,
     reads |-> reads]

NoResponse == Resp(None, None, 0, {})

\* RedirectResponse(url=...): 307 unless a status code is given
RedirectResponse(url, reads) == Resp("redirect", url, 307, reads)
SeeOther(url, reads)         == Resp("redirect", url, 303, reads)

\* templates.TemplateResponse(name, {"request": request, "user": user, ...})
TemplateResponse(name, user, reads) ==
    [Resp("template", name, 200, reads) EXCEPT !.user = user.username]

(* ------------------------------- seeding ------------------------------- *)
SeedUserData ==
    << [username |-> "doctor1", full_name |-> "Dr. Smith",    role |-> "doctor"],
       [username |-> "doctor2", full_name |-> "Dr. Jones",    role |-> "doctor"],
       [username |-> "doctor3", full_name |-> "Dr. Williams", role |-> "doctor"],
       [username |-> "doctor4", full_name |-> "Dr. Brown",    role |-> "doctor"],
       [username |-> "doctor5", full_name |-> "Dr. Davis",    role |-> "doctor"],
       [username |-> "head",    full_name |-> "Dr. Head",     role |-> "head"],
       [username |-> "admin",   full_name |-> "Admin User",   role |-> "admin"] >>

MeetingTypes == <<"Department", "CME", "Hospital-wide">>
Statuses     == <<"Present", "Absent", "Excused">>
Days         == <<"Monday", "Tuesday", "Wednesday", "Thursday", "Friday">>
Procedures   == <<"Appendectomy", "Cholecystectomy", "Hernia Repair",
                  "Consultation", "Teaching Rounds">>
Research     == << <<"New Techniques in Surgery", "Publication",  "Published">>,
                   <<"Annual Medical Conference", "Presentation", "Submitted">>,
                   <<"Cardiology Trial Phase 1",  "Trial",        "Approved">>,
                   <<"Pediatric Care Review",     "Publication",  "Submitted">>,
                   <<"Grand Rounds Presentation", "Presentation", "Published">> >>

\* users = [...]; db.add_all(users); the salt of each hash comes from the
\* entropy e of the process
SeedUsers(base, e) ==
    { [id              |-> base + i,
       username        |-> SeedUserData[i].username,
       hashed_password |-> get_password_hash("pass", e + i),
       full_name       |-> SeedUserData[i].full_name,
       role            |-> SeedUserData[i].role] : i \in 1..Len(SeedUserData) }

\* docs = db.query(User).filter(User.role == "doctor").all()
Docs(userRows) == SortById({u \in userRows : u.role = "doctor"})

\* for i in range(15): Meeting(...)
SeedMeetings(base, day) ==
    { [id           |-> base + i + 1,
       title        |-> <<"Meeting", i + 1>>,
       date         |-> day - i * 2,
       meeting_type |-> MeetingTypes[(i % 3) + 1]] : i \in 0..(NumMeetings - 1) }

\* random.choice(["Present", "Absent", "Excused"]) for the k-th draw of a
\* generator started from entropy e
RandomStatus(e, k) == Statuses[((e * (k + 1) + k) % 3) + 1]

\* for m in meetings: for d in docs: Attendance(m.id, d.id, random status)
SeedAttendance(base, meetingBase, docs, e) ==
    { [id         |-> base + (mi - 1) * Len(docs) + di,
       meeting_id |-> meetingBase + mi,
       user_id    |-> docs[di].id,
       status     |-> RandomStatus(e, (mi - 1) * Len(docs) + di)]
         : mi \in 1..NumMeetings, di \in 1..Len(docs) }

\* for i in range(10): ClinicSlot(...)
SeedSlots(base, docs) ==
    { [id          |-> base + i + 1,
       day_of_week |-> Days[(i % 5) + 1],
       start_time  |-> <<8 + (i % 4), "00">>,
       end_time    |-> <<12 + (i % 4), "00">>,
       user_id     |-> docs[(i % 5) + 1].id] : i \in 0..(NumSlots - 1) }

\* for i in range(8): ServiceEntry(...)
SeedServices(base, docs, day) ==
    { [id             |-> base + i + 1,
       date           |-> day - i,
       procedure_name |-> Procedures[(i % 5) + 1],
       user_id        |-> docs[(i % 5) + 1].id,
       notes          |-> <<"Routine procedure", i + 1>>] : i \in 0..(NumServices - 1) }

\* for i, (title, rtype, status) in enumerate(research): ResearchItem(...)
SeedResearch(base, docs) ==
    { [id            |-> base + i + 1,
       title         |-> Research[i + 1][1],
       research_type |-> Research[i + 1][2],
       status        |-> Research[i + 1][3],
       user_id       |-> docs[(i % 5) + 1].id] : i \in 0..(Len(Research) - 1) }

\* the fixture rows are added whatever the store holds
seed_data_unguarded(e) ==
    LET users1 == users \cup SeedUsers(MaxId(users), e)
        docs   == Docs(users1)
    IN  /\ Count(users) < 2 * Len(SeedUserData)
        /\ users' = users1
        /\ meetings_t' = meetings_t \cup SeedMeetings(MaxId(meetings_t), today)
        /\ attendance' = attendance \cup
               SeedAttendance(MaxId(attendance), MaxId(meetings_t), docs, e)
        /\ clinic_slots' = clinic_slots \cup SeedSlots(MaxId(clinic_slots), docs)
        /\ service_entries' = service_entries \cup
               SeedServices(MaxId(service_entries), docs, today)
        /\ research_items' = research_items \cup
               SeedResearch(MaxId(research_items), docs)

\* seed_data(db): nothing when a User row exists, else the fixture rows
seed_data(e) ==
    IF Count(users) > 0
    THEN UNCHANGED tables
    ELSE LET users1 == users \cup SeedUsers(MaxId(users), e)
             docs   == Docs(users1)
         IN  /\ users' = users1
             /\ meetings_t' = meetings_t \cup SeedMeetings(MaxId(meetings_t), today)
             /\ attendance' = attendance \cup
                    SeedAttendance(MaxId(attendance), MaxId(meetings_t), docs, e)
             /\ clinic_slots' = clinic_slots \cup SeedSlots(MaxId(clinic_slots), docs)
             /\ service_entries' = service_entries \cup
                    SeedServices(MaxId(service_entries), docs, today)
             /\ research_items' = research_items \cup
                    SeedResearch(MaxId(research_items), docs)

\* @app.on_event("startup")
on_startup ==
    /\ \E e \in Entropy : seed_data(e)
    /\ started' = TRUE
    /\ request' = [NoRequest EXCEPT !.route = "on_startup"]
    /\ response' = NoResponse
    /\ UNCHANGED <<session, today, posts>>

\* the session is trusted without the store confirming its user
get_current_user_trusting(c) ==
    LET username == session[c]
        found    == First({u \in users : u.username = username})
    IN  IF username = None \/ username = ""
        THEN [user |-> NoRow, reads |-> {}]
        ELSE [user  |-> IF found = NoRow
                        THEN [NoRow EXCEPT !.id = 1, !.username = username,
                                           !.role = "doctor"]
                        ELSE found,
              reads |-> {"users"}]

\* get_current_user(request, db): the row of the session's user, or None,
\* and the tables it queried on the way
get_current_user(c) ==
    LET username == session[c]
    IN  IF username = None \/ username = ""
        THEN [user |-> NoRow, reads |-> {}]
        ELSE [user  |-> First({u \in users : u.username = username}),
              reads |-> {"users"}]

Running == started

StoreUnchanged == UNCHANGED <<tables, today, started, posts>>

(* ------------------------------- routes -------------------------------- *)
\* GET /
root(c) ==
    /\ Running
    /\ request' = Req(c, "GET /")
    /\ response' = RedirectResponse("/login", {})
    /\ UNCHANGED session /\ StoreUnchanged

\* GET /health
health(c) ==
    /\ Running
    /\ request' = Req(c, "GET /health")
    /\ response' = Resp("json", "ok", 200, {})
    /\ UNCHANGED session /\ StoreUnchanged

\* GET /login
login_page(c) ==
    /\ Running
    /\ request' = Req(c, "GET /login")
    /\ response' = Resp("template", "login.html", 200, {})
    /\ UNCHANGED session /\ StoreUnchanged

\* POST /login
login(c, username, password) ==
    LET user == First({u \in users : u.username = username})
    IN  /\ Running
        /\ request' = [Req(c, "POST /login") EXCEPT
                          !.username = username, !.password = password]
        /\ IF user = NoRow \/ ~verify_password(password, user.hashed_password)
           THEN /\ response' = [Resp("template", "login.html", 200, {"users"})
                                   EXCEPT !.error = "Invalid credentials"]
                /\ UNCHANGED session
           ELSE /\ session' = [session EXCEPT ![c] = user.username]
                /\ response' = SeeOther("/dashboard", {"users"})
        /\ StoreUnchanged

\* the session is left as it is
logout_keep(c) ==
    /\ Running
    /\ request' = Req(c, "GET /logout")
    /\ response' = RedirectResponse("/login", {})
    /\ UNCHANGED session /\ StoreUnchanged

\* GET /logout
logout(c) ==
    /\ Running
    /\ request' = Req(c, "GET /logout")
    /\ session' = [session EXCEPT ![c] = None]
    /\ response' = RedirectResponse("/login", {})
    /\ StoreUnchanged

\* the procedures count is taken from the clinic slots
DashboardStats_copied ==
    [meetings   |-> Count(meetings_t),
     clinics    |-> Count(clinic_slots),
     procedures |-> Count(clinic_slots),
     research   |-> Count(research_items)]

\* the counts the dashboard shows
DashboardStats ==
    [meetings   |-> Count(meetings_t),
     clinics    |-> Count(clinic_slots),
     procedures |-> Count(service_entries),
     research   |-> Count(research_items)]

\* GET /dashboard
dashboard(c) ==
    LET cu   == get_current_user(c)
        user == cu.user
    IN  /\ Running
        /\ request' = Req(c, "GET /dashboard")
        /\ response' =
             IF user = NoRow
             THEN RedirectResponse("/login", cu.reads)
             ELSE [TemplateResponse("dashboard.html", user,
                       cu.reads \cup {"meetings", "clinic_slots",
                                                 "service_entries", "research_items"})
                     EXCEPT !.stats = DashboardStats]
        /\ UNCHANGED session /\ StoreUnchanged

\* a doctor reads every row instead of only their own
AttendanceFor_unfiltered(user) == attendance

\* the attendance rows /meetings shows to a user
AttendanceFor(user) ==
    IF user.role = "admin" \/ user.role = "head"
    THEN attendance
    ELSE {a \in attendance : a.user_id = user.id}

\* GET /meetings
meetings(c) ==
    LET cu   == get_current_user(c)
        user == cu.user
        rows == AttendanceFor(user)
    IN  /\ Running
        /\ request' = Req(c, "GET /meetings")
        /\ response' =
             IF user = NoRow
             THEN RedirectResponse("/login", cu.reads)
             ELSE [TemplateResponse("meetings.html", user,
                       cu.reads \cup {"attendance"})
                     EXCEPT !.rows = rows]
        /\ UNCHANGED session /\ StoreUnchanged

\* GET /schedule
schedule(c) ==
    LET cu   == get_current_user(c)
        user == cu.user
    IN  /\ Running
        /\ request' = Req(c, "GET /schedule")
        /\ response' =
             IF user = NoRow
             THEN RedirectResponse("/login", cu.reads)
             ELSE [TemplateResponse("schedule.html", user,
                       cu.reads \cup {"clinic_slots"})
                     EXCEPT !.rows = clinic_slots]
        /\ UNCHANGED session /\ StoreUnchanged

\* Query.order_by(ServiceEntry.date.desc()).all(): every listing of the rows
\* in which dates never increase; rows of one date come in any order
RECURSIVE OrderByDateDesc(_)
OrderByDateDesc(rows) ==
    IF rows = {} THEN {<<>>}
    ELSE LET top == {r \in rows : \A x \in rows : x.date <= r.date}
         IN  UNION { { <<r>> \o rest : rest \in OrderByDateDesc(rows \ {r}) }
                     : r \in top }

\* GET /services
services(c) ==
    LET cu   == get_current_user(c)
        user == cu.user
    IN  /\ Running
        /\ request' = Req(c, "GET /services")
        /\ \E entries \in OrderByDateDesc(service_entries) :
             response' =
               IF user = NoRow
               THEN RedirectResponse("/login", cu.reads)
               ELSE [TemplateResponse("services.html", user,
                         cu.reads \cup {"service_entries"})
                       EXCEPT !.entries = entries]
        /\ UNCHANGED session /\ StoreUnchanged

\* the two form fields are stored in each other's column
NewServiceEntry_swapped(user, procedure_name, notes) ==
    [id             |-> MaxId(service_entries) + 1,
     date           |-> today,
     procedure_name |-> notes,
     user_id        |-> user.id,
     notes          |-> procedure_name]

\* models.ServiceEntry(procedure_name=..., notes=..., user_id=user.id,
\*                     date=datetime.date.today()); the id is given on insert
NewServiceEntry(user, procedure_name, notes) ==
    [id             |-> MaxId(service_entries) + 1,
     date           |-> today,
     procedure_name |-> procedure_name,
     user_id        |-> user.id,
     notes          |-> notes]

\* the new row takes the place of the user's earlier rows
AddAndCommit_replace(table, row) ==
    {r \in table : r.user_id # row.user_id} \cup {row}

\* db.add(row); db.commit(): the table with one more row
AddAndCommit(table, row) == table \cup {row}

\* the row is inserted without looking at the current user
add_service_unchecked(c, procedure_name, notes) ==
    LET cu   == get_current_user(c)
        user == cu.user
        new_entry == NewServiceEntry(user, procedure_name, notes)
    IN  /\ Running
        /\ session[c] # None => posts < MaxPosts
        /\ posts' = IF session[c] # None THEN posts + 1 ELSE posts
        /\ Count(service_entries) < NumServices + MaxPosts
        /\ request' = [Req(c, "POST /services") EXCEPT
                          !.procedure_name = procedure_name, !.notes = notes]
        /\ service_entries' = AddAndCommit(service_entries, new_entry)
        /\ response' = SeeOther("/services", cu.reads)
        /\ UNCHANGED <<users, meetings_t, attendance, clinic_slots, research_items,
                       session, today, started>>

\* POST /services
add_service(c, procedure_name, notes) ==
    LET cu   == get_current_user(c)
        user == cu.user
        new_entry == NewServiceEntry(user, procedure_name, notes)
    IN  /\ Running
        /\ session[c] # None => posts < MaxPosts
        /\ posts' = IF session[c] # None THEN posts + 1 ELSE posts
        /\ request' = [Req(c, "POST /services") EXCEPT
                          !.procedure_name = procedure_name, !.notes = notes]
        /\ IF user = NoRow
           THEN /\ response' = RedirectResponse("/login", cu.reads)
                /\ UNCHANGED service_entries
           ELSE /\ service_entries' = AddAndCommit(service_entries, new_entry)
                /\ response' = SeeOther("/services", cu.reads)
        /\ UNCHANGED <<users, meetings_t, attendance, clinic_slots, research_items,
                       session, today, started>>

\* GET /research
research(c) ==
    LET cu   == get_current_user(c)
        user == cu.user
    IN  /\ Running
        /\ request' = Req(c, "GET /research")
        /\ response' =
             IF user = NoRow
             THEN RedirectResponse("/login", cu.reads)
             ELSE [TemplateResponse("research.html", user,
                       cu.reads \cup {"research_items"})
                     EXCEPT !.rows = research_items]
        /\ UNCHANGED session /\ StoreUnchanged

(* ----------------------------- environment ----------------------------- *)
\* datetime.date.today() moves on at midnight; day 0 is the day of the first
\* start, every date of the program being relative to today
NextDay ==
    /\ Running
    /\ today < MaxDay
    /\ today' = today + 1
    /\ UNCHANGED <<tables, session, started, posts, request, response>>

\* a User row is removed from the store by something other than the
\* application, which itself never deletes
ExternalDeleteUser ==
    /\ Running
    /\ \E u \in {x \in users : x.username \in Deletable} : users' = users \ {u}
    /\ UNCHANGED <<meetings_t, attendance, clinic_slots, service_entries,
                   research_items, session, today, started, posts, request, response>>

(* ---------------------------- specification ---------------------------- *)
\* models.Base.metadata.create_all: six empty tables; no browser has a cookie
Init ==
    /\ users = {} /\ meetings_t = {} /\ attendance = {}
    /\ clinic_slots = {} /\ service_entries = {} /\ research_items = {}
    /\ session = [c \in Clients |-> None]
    /\ today = 0
    /\ started = FALSE /\ posts = 0
    /\ request = NoRequest
    /\ response = NoResponse

Next ==
    \/ on_startup
    \/ NextDay
    \/ \E c \in Clients : root(c)
    \/ \E c \in Clients : health(c)
    \/ \E c \in Clients : login_page(c)
    \/ \E c \in Clients, u \in LoginNames, p \in Passwords : login(c, u, p)
    \/ \E c \in Clients : logout(c)
    \/ \E c \in Clients : dashboard(c)
    \/ \E c \in Clients : meetings(c)
    \/ \E c \in Clients : schedule(c)
    \/ \E c \in Clients : services(c)
    \/ \E c \in Clients, n \in ProcedureNames, t \in NotesValues : add_service(c, n, t)
    \/ \E c \in Clients : research(c)

Spec == Init /\ [][Next]_vars

\* the same program on a store that other parties may also change
NextExt == Next \/ ExternalDeleteUser

SpecExt == Init /\ [][NextExt]_vars

(* =============================== claims ================================ *)
Protected ==
    {"GET /dashboard", "GET /meetings", "GET /schedule", "GET /services",
     "POST /services", "GET /research"}

ToLogin(r) == r.kind = "redirect" /\ r.target = "/login"

Usernames == {u.username : u \in users}

UserNamed(name) == CHOOSE u \in users : u.username = name

\* C1: a request to a protected route that carries no session user is
\* answered with a redirect to /login, has queried no table, and leaves all
\* six tables as they were (POST /services inserts nothing).
C1_NoSessionNoAccess ==
    /\ [](request.route \in Protected /\ request.cookie = None
            => ToLogin(response) /\ response.reads = {})
    /\ [][request'.route \in Protected /\ request'.cookie = None
            => tables' = tables]_vars

C1_Witness ==
    /\ request.route = "POST /services" /\ request.cookie = None
    /\ ToLogin(response)
    /\ Count(service_entries) = NumServices

\* C2: GET /meetings answers a doctor with exactly the Attendance rows whose
\* user_id is the doctor's id, and an admin or head with every Attendance row.
C2_MeetingsFilter ==
    request.route = "GET /meetings" /\ request.cookie # None
        => /\ request.cookie \in Usernames
           /\ response.kind = "template" /\ response.target = "meetings.html"
           /\ LET u == UserNamed(request.cookie)
              IN  /\ u.role = "doctor"
                       => response.rows = {a \in attendance : a.user_id = u.id}
                  /\ u.role \in {"admin", "head"} => response.rows = attendance
                  /\ u.role \in {"doctor", "admin", "head"}

C2_Witness ==
    /\ request.route = "GET /meetings" /\ request.cookie = "doctor1"
    /\ response.rows # {} /\ response.rows # attendance
    /\ \A a \in response.rows : a.user_id = UserNamed("doctor1").id

\* a login whose username is unknown or whose password is not the stored one
BadLogin ==
    /\ request.route = "POST /login"
    /\ request.username \notin Usernames \/ request.password # "pass"

LoginFormWithError ==
    /\ response.kind = "template" /\ response.target = "login.html"
    /\ response.error = "Invalid credentials"

\* C3 (as stated): after a POST /login with an unknown username or a wrong
\* password the session holds no authenticated user, and the answer is the
\* login form with the error "Invalid credentials", not a redirect.
C3_Original ==
    BadLogin => session[request.client] = None /\ LoginFormWithError

\* C3 (amended): a POST /login with an unknown username or a wrong password
\* leaves the session as the request carried it, so it establishes none, and
\* the answer is the login form with the error "Invalid credentials", not a
\* redirect.
C3_FailedLoginKeepsSession ==
    BadLogin => session[request.client] = request.cookie /\ LoginFormWithError

C3_Witness ==
    /\ request.route = "POST /login" /\ request.username = "doctor1"
    /\ request.password = "wrong" /\ request.cookie = None
    /\ session[request.client] = None

\* the step handles a POST /services that carried a session
SessionPost == posts' = posts + 1

\* C4: an authenticated POST /services with procedure_name X and notes Y adds
\* exactly one ServiceEntry row, owned by the submitting user, dated today,
\* with procedure_name X and notes Y, keeps every earlier row, and answers
\* with a redirect to /services.
C4_PostCreatesOneRow ==
    [][SessionPost /\ request'.cookie \in Usernames
         => /\ service_entries \subseteq service_entries'
            /\ Cardinality(service_entries') = Cardinality(service_entries) + 1
            /\ \A row \in service_entries' \ service_entries :
                 /\ row.user_id = UserNamed(request'.cookie).id
                 /\ row.date = today
                 /\ row.procedure_name = request'.procedure_name
                 /\ row.notes = request'.notes
            /\ request'.route = "POST /services"
            /\ response'.kind = "redirect" /\ response'.target = "/services"]_vars

C4_Witness ==
    /\ request.route = "POST /services" /\ request.cookie = "admin"
    /\ request.procedure_name = "X" /\ request.notes = "Y"
    /\ today = 1
    /\ \E row \in service_entries :
         /\ row.procedure_name = "X" /\ row.notes = "Y" /\ row.date = 1
         /\ row.user_id = UserNamed("admin").id

\* the listing never goes up in date
DescendingDates(entries) ==
    \A i \in 1..(Len(entries) - 1) : entries[i].date >= entries[i + 1].date

\* C5: once a POST /services has created a row, a following GET /services
\* lists the newest row first, in descending date order, whatever the table
\* held before (seeded rows and earlier submissions of the same date too).
C5_NewRowListedFirst ==
    /\ request.route = "GET /services" /\ response.kind = "template"
    /\ Count(service_entries) > NumServices
    => /\ DescendingDates(response.entries)
       /\ response.entries[1].id = MaxId(service_entries)

\* C6: however many times seeding runs, no two User rows share a username,
\* and a run that finds a User row leaves all six tables unchanged.
C6_SeedIdempotent ==
    /\ [](\A u, v \in users : u.username = v.username => u = v)
    /\ [][request'.route = "on_startup" /\ users # {} => tables' = tables]_vars

C6_Witness ==
    /\ request.route = "on_startup"
    /\ Count(service_entries) > NumServices
    /\ Count(users) = Len(SeedUserData)

\* C7: after seeding on an empty store, POST /login with doctor1/pass binds
\* the session to doctor1 and redirects to /dashboard; GET /dashboard then
\* reports the table sizes: 15 meetings, 10 clinic slots, 5 research items,
\* and 8 service entries as long as none has been added.
C7_LoginThenDashboard ==
    /\ request.route = "POST /login" /\ request.username = "doctor1"
         /\ request.password = "pass"
       => /\ session[request.client] = "doctor1"
          /\ response.kind = "redirect" /\ response.target = "/dashboard"
    /\ request.route = "GET /dashboard" /\ request.cookie = "doctor1"
       => /\ response.kind = "template" /\ response.target = "dashboard.html"
          /\ response.stats.meetings = Count(meetings_t)
          /\ response.stats.clinics = Count(clinic_slots)
          /\ response.stats.procedures = Count(service_entries)
          /\ response.stats.research = Count(research_items)
          /\ response.stats.meetings = 15
          /\ response.stats.clinics = 10
          /\ response.stats.research = 5
          /\ posts = 0 => response.stats.procedures = 8

C7_Witness ==
    /\ request.route = "GET /dashboard" /\ request.cookie = "doctor1"
    /\ posts = 0
    /\ response.stats =
         [meetings |-> 15, clinics |-> 10, procedures |-> 8, research |-> 5]

\* C8: GET /logout leaves the session without a user and redirects to /login,
\* whether or not it held one; from then on a request to a protected route is
\* redirected to /login, and only a POST /login answered with the redirect to
\* /dashboard gives the session a user again.
C8_LogoutEndsSession ==
    /\ [](request.route = "GET /logout"
            => session[request.client] = None /\ ToLogin(response))
    /\ [][\A c \in Clients : session[c] = None =>
            /\ request'.client = c /\ request'.route \in Protected
                 => ToLogin(response') /\ session'[c] = None
            /\ session'[c] # None
                 => /\ request'.client = c /\ request'.route = "POST /login"
                    /\ response'.kind = "redirect"
                    /\ response'.target = "/dashboard"
                    /\ session'[c] = request'.username]_vars

C8_Witness ==
    /\ request.route = "GET /services" /\ request.cookie = None
    /\ ToLogin(response)
    /\ Count(service_entries) > NumServices

\* the session of browser c names a user of whom the store has no row
Stale(c) == session[c] # None /\ session[c] \notin Usernames

\* the step handles a request
Handled == request' # request \/ response' # response \/ posts' # posts

\* C9: a request to a protected route whose session names a user that has no
\* User row is answered with a redirect to /login, and POST /services then
\* inserts no row.
C9_StaleSessionIsAnonymous ==
    [][\A c \in Clients :
         Stale(c) /\ Handled /\ request'.client = c /\ request'.route \in Protected
           => /\ ToLogin(response')
              /\ service_entries' = service_entries]_vars

C9_Witness ==
    /\ request.route = "POST /services" /\ request.cookie = "doctor1"
    /\ "doctor1" \notin Usernames
    /\ ToLogin(response)
    /\ posts = 1 /\ Count(service_entries) = NumServices

\* C10: once seeded, the User, Meeting, Attendance, ClinicSlot and
\* ResearchItem tables never change; the ServiceEntry table changes only in
\* a POST /services that carried a session, which keeps every row and adds
\* one; every other request leaves the whole store unchanged.
C10_StoreOnlyGrowsByPosts ==
    [][started =>
         /\ users' = users /\ meetings_t' = meetings_t /\ attendance' = attendance
         /\ clinic_slots' = clinic_slots /\ research_items' = research_items
         /\ service_entries' # service_entries
              => /\ SessionPost /\ request'.route = "POST /services"
                 /\ service_entries \subseteq service_entries'
                 /\ Cardinality(service_entries') = Cardinality(service_entries) + 1
         /\ SessionPost /\ request'.cookie \in Usernames
              => Cardinality(service_entries') = Cardinality(service_entries) + 1
         /\ ~SessionPost => tables' = tables]_vars

C10_Witness ==
    /\ request.route = "GET /logout" /\ request.cookie = "doctor1"
    /\ Count(service_entries) = NumServices + 1
    /\ Count(attendance) = NumMeetings * 5

====
